---- MODULE Spec2Model ----
(***************************************************************************)
(* A model of fmu-runner (src/src/fmu.rs): unpacked packages (Fmu), loaded *)
(* libraries (FmuLibrary), simulation instances (FmuInstance) and the      *)
(* native FMI 2.0 call surface every wrapper method forwards to.           *)
(***************************************************************************)
EXTENDS Integers, Sequences, FiniteSets, TLC

\* ------------------------------------------------------------------ bounds
MaxLibs == 2
MaxInst == 2
MaxUser == 2
MaxTime == 2
MaxCaptures == 1

Libs == 1..MaxLibs
Insts == 1..MaxInst

\* --------------------------------------------------------- native statuses
\* fmi2Status as re-exported from libfmi; the wrapper only tells fmi2OK
\* from the rest.
fmi2OK == "fmi2OK"
fmi2Status ==
  {"fmi2OK", "fmi2Warning", "fmi2Discard", "fmi2Error", "fmi2Fatal", "fmi2Pending"}
fmi2Type == {"fmi2ModelExchange", "fmi2CoSimulation"}

\* FmuError and the Result<(), FmuError> every method returns.
Ok == [tag |-> "Ok", status |-> fmi2OK]
BadFunctionCall(status) == [tag |-> "BadFunctionCall", status |-> status]
FmuInstantiateFailed == [tag |-> "FmuInstantiateFailed", status |-> fmi2OK]

\* An ok_or_err that lets a warning pass as success.
OkOrErrLenient(status) ==
  IF status \in {"fmi2OK", "fmi2Warning"}
  THEN [tag |-> "Ok", status |-> "fmi2OK"]
  ELSE [tag |-> "BadFunctionCall", status |-> status]

\* FmuInstance::ok_or_err
OkOrErr(status) == IF status = fmi2OK THEN Ok ELSE BadFunctionCall(status)

VARIABLES
  lib,     \* per library slot: the Fmu / FmuLibrary pair and who holds it
  inst,    \* per instance slot: the FmuInstance object
  native,  \* per native handle: what the loaded binary keeps for it
  caller,  \* what the calling program holds: snapshot size and buffer
  last     \* the most recent wrapper operation: native calls made, result

vars == <<lib, inst, native, caller, last>>

\* ------------------------------------------------------------ the registry
\* Value references of the model's variables and the values they take.
VRefs == {0, 1}
NumVals == 2
Vals == 0..(NumVals - 1)
\* modelIdentifier of the capability block a library is loaded for.
ModelIds == {"bouncing_ball", "free_fall"}
\* model_variables.scalar_variable: ScalarVariable by name. h and h_m are
\* aliases: they share a value reference.
Registry ==
  {[name |-> "h_start", value_reference |-> 0],
   [name |-> "h_m", value_reference |-> 1],
   [name |-> "h", value_reference |-> 1]}
MaxSignals == 2

\* ------------------------------------------------------------------- state
NoLib ==
  [state |-> "none", temp |-> FALSE, dir |-> FALSE, dll |-> FALSE,
   cs |-> FALSE, me |-> FALSE, mid |-> "", unpacked_dir |-> "",
   simType |-> "",
   kind |-> "none", user |-> 0, counter |-> 0]

\* The simulation state of a fresh component: time and the variables' values.
SimStart == [t |-> 0, val |-> [r \in VRefs |-> 0]]

\* `alone` is the simulation state the instance's own calls produce when no
\* other instance exists.
NoInst ==
  [state |-> "none", lib |-> 0, name |-> "", handle |-> 0, callbacks |-> FALSE,
   alone |-> SimStart]

\* What the binary keeps for one fmi2Component.
NoNative ==
  [phase |-> "none", sim |-> SimStart, stateSet |-> FALSE,
   captures |-> 0, frees |-> 0]

NoOp == [op |-> "none", inst |-> 0, arg |-> <<>>, trace |-> <<>>, ret |-> Ok,
         out |-> <<>>]

Init ==
  /\ lib = [l \in Libs |-> NoLib]
  /\ inst = [i \in Insts |-> NoInst]
  /\ native = [h \in Insts |-> NoNative]
  /\ caller = [size |-> 0, buf |-> <<>>, of |-> SimStart, taken |-> FALSE,
               mid |-> "", from |-> 0]
  /\ last = NoOp

\* One native call: the entry point, the fmi2Component it is made on, the
\* status it returned ("none" for the two entry points that return none) and
\* its other arguments.
Call(fn, h, status, arg) == [fn |-> fn, h |-> h, status |-> status, arg |-> arg]

\* The `?` operator over a chain of status-returning calls: the calls made are
\* those up to and including the first one that is not fmi2OK.
RECURSIVE Made(_)
Made(calls) ==
  IF calls = <<>> THEN <<>>
  ELSE IF Head(calls).status # fmi2OK THEN <<Head(calls)>>
  ELSE <<Head(calls)>> \o Made(Tail(calls))

\* The Result of such a chain: ok_or_err of the last call made.
ChainResult(made) == OkOrErr(made[Len(made)].status)

\* ------------------------------------------------------- package and library
\* std::path as the code uses it. Path::is_absolute:
IsAbsolute(path) == Len(path) > 0 /\ SubSeq(path, 1, 1) = "/"

\* Path::join: an absolute component replaces the base.
Join(base, component) ==
  IF IsAbsolute(component) THEN component ELSE base \o "/" \o component

\* The position of the last occurrence of a character, 0 when there is none.
LastIndexOf(s, ch) ==
  LET ks == {k \in 1..Len(s) : SubSeq(s, k, k) = ch}
  IN IF ks = {} THEN 0 ELSE CHOOSE k \in ks : \A j \in ks : j <= k

\* PathBuf::set_extension: the extension replaces what follows the last dot
\* of the file name; a name with no dot, or with only a leading one, is kept
\* whole.
SetExtension(path, extension) ==
  LET slash == LastIndexOf(path, "/")
      name == SubSeq(path, slash + 1, Len(path))
      dot == LastIndexOf(name, ".")
      stem == IF dot <= 1 THEN name ELSE SubSeq(name, 1, dot - 1)
  IN SubSeq(path, 1, slash) \o stem \o "." \o extension

\* The errors of unpack and load, in the shape of the other results.
FmuUnpackError(kind) == [tag |-> kind, status |-> fmi2OK]
FmuLoadError(kind) == [tag |-> kind, status |-> fmi2OK]
\* A panic unwinding out of the call.
Panic == [tag |-> "panic", status |-> fmi2OK]

\* The file system: a directory nothing can be created under (the one of
\* test_invalid_output_dir), the path tempfile gives the package of slot l,
\* the working directory of the process.
Unwritable == {"/z/dasd"}
TempDirPath(l) == "/tmp/fmi-runner" \o ToString(l)
CurrentDir == "/work"

\* FmiModelDescription::new: read_to_string(path).unwrap(), then from_str.
ModelDescriptionNew(md) ==
  CASE md = "absent" -> Panic
    [] md = "malformed" -> FmuUnpackError("InvalidModelDescription")
    [] OTHER -> Ok

\* Fmu::unpack_to, its result: canonicalize and File::open, ZipArchive::new,
\* archive.extract, FmiModelDescription::new, each ending the call with `?`.
UnpackToResult(bundle, target_dir) ==
  CASE bundle.file \in {"missing", "unreadable"} ->
         FmuUnpackError("InvalidFile")
    [] bundle.file = "io_error" -> FmuUnpackError("InvalidFile")
    [] bundle.file = "not_archive" -> FmuUnpackError("InvalidArchive")
    [] bundle.file = "archive" /\ target_dir \in Unwritable ->
         FmuUnpackError("InvalidOutputDir")
    [] bundle.file = "archive" /\ target_dir \notin Unwritable
         /\ bundle.entries = "unsupported" -> FmuUnpackError("InvalidArchive")
    [] OTHER -> ModelDescriptionNew(bundle.md)

\* Whether archive.extract was reached and could write into the target.
Extracted(bundle, target_dir) ==
  bundle.file = "archive" /\ target_dir \notin Unwritable

\* A TempDir that is kept when it goes out of scope.
TempDirKept(exists) == exists

\* TempDir's drop: the directory and what is in it are removed.
DropTempDir(exists) == FALSE

\* The package an unpack leaves in slot l.
Unpacked(bundle, temp, unpacked_dir) ==
  [NoLib EXCEPT !.state = "unpacked", !.temp = temp, !.dir = TRUE,
                !.cs = bundle.cs, !.me = bundle.me, !.mid = bundle.id,
                !.unpacked_dir = unpacked_dir]

\* Fmu::unpack: a fresh tempdir, unpack_to into it, the Fmu keeps the TempDir.
\* When unpack_to fails or panics the TempDir is dropped on the way out.
Unpack(l, bundle, tempdir) ==
  /\ lib[l].state = "none"
  /\ LET res == IF tempdir THEN UnpackToResult(bundle, TempDirPath(l))
                ELSE FmuUnpackError("NoTempdir")
     IN /\ lib' = [lib EXCEPT ![l] =
             IF res = Ok THEN Unpacked(bundle, TRUE, TempDirPath(l))
             ELSE [NoLib EXCEPT !.state = "failed", !.temp = TRUE,
                                !.dir = tempdir /\ DropTempDir(tempdir)]]
        /\ last' = [op |-> "unpack", inst |-> 0,
                    arg |-> [lib |-> l, bundle |-> bundle, tempdir |-> tempdir],
                    trace |-> <<>>, ret |-> res, out |-> <<>>]
  /\ UNCHANGED <<inst, native, caller>>

\* Fmu::unpack_to: the caller's directory, temp_dir: None. What a failed
\* extraction wrote stays in the caller's directory.
UnpackTo(l, bundle, target_dir) ==
  /\ lib[l].state = "none"
  /\ LET res == UnpackToResult(bundle, target_dir)
     IN /\ lib' = [lib EXCEPT ![l] =
             IF res = Ok THEN Unpacked(bundle, FALSE, target_dir)
             ELSE [NoLib EXCEPT !.state = "failed",
                                !.dir = Extracted(bundle, target_dir)]]
        /\ last' = [op |-> "unpack_to", inst |-> 0,
                    arg |-> [lib |-> l, bundle |-> bundle,
                             target_dir |-> target_dir],
                    trace |-> <<>>, ret |-> res, out |-> <<>>]
  /\ UNCHANGED <<inst, native, caller>>

\* A drop that removes the unpacked directory whoever made it.
DropFmuAlways(p) == [p EXCEPT !.state = "gone", !.dir = FALSE]

\* Dropping an Fmu drops its Option<TempDir>: an ephemeral directory is
\* removed, a caller-supplied one is left alone.
DropFmu(p) == [p EXCEPT !.state = "gone", !.dir = (p.dir /\ ~p.temp)]

\* The match on env::consts::OS and on env::consts::ARCH in Fmu::load.
OsType(os) ==
  CASE os = "macos" -> [os_type |-> "darwin", lib_type |-> "dylib"]
    [] os = "linux" -> [os_type |-> "linux", lib_type |-> "so"]
    [] os = "windows" -> [os_type |-> "win", lib_type |-> "dll"]
    [] OTHER -> [os_type |-> "unknown", lib_type |-> "so"]
ArchType(arch) ==
  CASE arch = "x86" -> "32"
    [] arch = "x86_64" -> "64"
    [] arch = "aarch64" -> "64"
    [] OTHER -> "unknown"

\* The library path Fmu::load builds: the joins, then set_extension.
LibPath(unpacked_dir, host, model_identifier) ==
  SetExtension(
    Join(Join(Join(unpacked_dir, "binaries"),
              OsType(host.os).os_type \o ArchType(host.arch)),
         model_identifier),
    OsType(host.os).lib_type)

\* A load that takes whichever capability block the description has.
HasAnyBlock(p, simulation_type) == p.cs \/ p.me

\* Whether the description has the block of the requested mode
\* (model_exchange.as_ref() / co_simulation.as_ref()).
HasBlock(p, simulation_type) ==
  IF simulation_type = "fmi2ModelExchange" THEN p.me ELSE p.cs

\* ok_or(FmuLoadError::NoModelExchangeModel / NoCoSimulationModel)
NoBlockError(simulation_type) ==
  IF simulation_type = "fmi2ModelExchange"
  THEN FmuLoadError("NoModelExchangeModel")
  ELSE FmuLoadError("NoCoSimulationModel")

\* Fmu::load then FmuLibrary::load. `self` is consumed: on either failure the
\* Fmu is dropped on return. `binary` is whether Fmi2Dll::new finds a library
\* it can open at the path; `kind` is how the caller keeps the library (a
\* binding lent by reference, a Box, an Arc).
Load(l, simulation_type, host, binary, kind) ==
  /\ lib[l].state = "unpacked"
  /\ LET p == lib[l]
         open == Call("Fmi2Dll::new", 0, "none",
                      [path |-> LibPath(p.unpacked_dir, host, p.mid)])
         made == IF HasBlock(p, simulation_type) THEN <<open>> ELSE <<>>
         res == IF ~HasBlock(p, simulation_type)
                THEN NoBlockError(simulation_type)
                ELSE IF binary THEN Ok ELSE FmuLoadError("DLOpen")
     IN /\ lib' = [lib EXCEPT ![l] =
             IF res # Ok THEN DropFmu(p)
             ELSE [p EXCEPT !.state = "loaded", !.dll = TRUE,
                            !.simType = simulation_type, !.kind = kind,
                            !.user = 1, !.counter = 0]]
        /\ last' = [op |-> "load", inst |-> 0,
                    arg |-> [lib |-> l, simulation_type |-> simulation_type,
                             host |-> host, binary |-> binary],
                    trace |-> made, ret |-> res, out |-> <<>>]
  /\ UNCHANGED <<inst, native, caller>>

\* Who keeps a library alive. An instance holds its `lib: C` field from the
\* moment instantiate is entered until its fields are dropped.
Holding(i) == inst[i].state \in {"named", "live", "freed"}
Borrowers(l) == {i \in Insts : Holding(i) /\ inst[i].lib = l}
\* Owning handles: Box and Arc held by instances own the library, a shared
\* reference does not.
Owners(l, user, holders) ==
  IF lib[l].kind = "ref" THEN user ELSE user + Cardinality(holders)

\* FmuLibrary has no Drop impl: its fields are dropped in declaration order,
\* `fmi` (the library handle) first, then `fmu` (the package).
\* The fields declared the other way round: the package goes first.
DropLibraryFmuFirst(p) ==
  [p EXCEPT !.state = "unloaded", !.dir = (p.dir /\ ~p.temp)]

DropLibraryFmi(p) == [p EXCEPT !.state = "unloaded", !.dll = FALSE]
DropLibraryFmu(p) == DropFmu(p)

\* Giving up one handle on library l: the record of l afterwards. When no
\* owner is left the library's drop glue starts.
Release(l, user, holders) ==
  LET p == [lib[l] EXCEPT !.user = user]
  IN IF Owners(l, user, holders) = 0 THEN DropLibraryFmi(p) ELSE p

\* The second half of the library's drop glue.
FinishLibraryDrop(l) ==
  /\ lib[l].state = "unloaded"
  /\ lib' = [lib EXCEPT ![l] = DropLibraryFmu(lib[l])]
  /\ UNCHANGED <<inst, native, caller, last>>

\* The caller dropping an unloaded package.
DropPackage(l) ==
  /\ lib[l].state = "unpacked"
  /\ lib' = [lib EXCEPT ![l] = DropFmu(lib[l])]
  /\ UNCHANGED <<inst, native, caller, last>>

\* Arc::clone, from the caller's handle or from an instance's pub `lib`.
ArcClone(l) ==
  /\ lib[l].state = "loaded"
  /\ lib[l].kind = "arc"
  /\ lib[l].user < MaxUser
  /\ Owners(l, lib[l].user, Borrowers(l)) > 0
  /\ lib' = [lib EXCEPT ![l].user = @ + 1]
  /\ UNCHANGED <<inst, native, caller, last>>

\* The caller dropping a handle it holds. The binding a reference was taken
\* from cannot be dropped while an instance borrows it (the borrow checker).
DropHandle(l) ==
  /\ lib[l].state = "loaded"
  /\ lib[l].user > 0
  /\ lib[l].kind = "ref" => Borrowers(l) = {}
  /\ lib' = [lib EXCEPT ![l] = Release(l, lib[l].user - 1, Borrowers(l))]
  /\ UNCHANGED <<inst, native, caller, last>>

\* ------------------------------------------------------- the native binary
\* The binary's side of the calls, per fmi2Component. A call that does not
\* return fmi2OK leaves the simulation state as it was.
NativeStep(sim, dt) ==
  [t |-> sim.t + dt,
   val |-> [sim.val EXCEPT ![1] = (sim.val[1] + sim.val[0] + dt) % NumVals]]

\* What fmi2GetReal writes into the output buffer: position k holds the value
\* of the k-th value reference.
NativeGet(sim, vrs) == [k \in 1..Len(vrs) |-> sim.val[vrs[k]]]

\* What fmi2SetReal does: the pairs are applied in array order.
RECURSIVE NativeSet(_, _, _)
NativeSet(sim, vrs, values) ==
  IF vrs = <<>> THEN sim
  ELSE NativeSet([sim EXCEPT !.val[Head(vrs)] = Head(values)],
                 Tail(vrs), Tail(values))

\* The binary's serialized form of a simulation state, and its inverse.
StateBytes == 2
Encode(sim) == <<sim.t, sim.val[0] + NumVals * sim.val[1]>>
Decode(bytes) ==
  [t |-> bytes[1],
   val |-> [r \in VRefs |->
              IF r = 0 THEN bytes[2] % NumVals ELSE bytes[2] \div NumVals]]

\* What fmi2SerializeFMUstate leaves in a buffer of blen bytes.
Written(sim, blen) ==
  [k \in 1..blen |-> IF k <= StateBytes THEN Encode(sim)[k] ELSE 0]

\* The entry points the FMI state machine orders.
LifecycleFns ==
  {"fmi2Instantiate", "fmi2SetupExperiment", "fmi2EnterInitializationMode",
   "fmi2ExitInitializationMode", "fmi2DoStep", "fmi2FreeInstance"}

\* The effect of one call on the record of its component. `phase` is the
\* last lifecycle entry point that reached the binary for it.
Native(n, c) ==
  LET ok == c.status = fmi2OK
      m == IF c.fn \in LifecycleFns THEN [n EXCEPT !.phase = c.fn] ELSE n
  IN CASE c.fn = "fmi2DoStep" /\ ok ->
            [m EXCEPT !.sim = NativeStep(@, c.arg.communicationStepSize),
                      !.stateSet = FALSE]
       [] c.fn = "fmi2Set" /\ ok ->
            [m EXCEPT !.sim = NativeSet(@, c.arg.vr, c.arg.value)]
       [] c.fn \in {"fmi2GetFMUstate", "fmi2DeSerializeFMUstate"} /\ ok ->
            [m EXCEPT !.captures = @ + 1]
       [] c.fn = "fmi2SetFMUstate" /\ ok ->
            [m EXCEPT !.sim = c.arg.state, !.stateSet = TRUE]
       [] c.fn = "fmi2FreeFMUstate" /\ ok ->
            [m EXCEPT !.captures = @ - 1]
       [] c.fn = "fmi2FreeInstance" ->
            [m EXCEPT !.frees = @ + 1]
       [] OTHER -> m

\* The binary's record of component h after the calls made on h, in order.
RECURSIVE NativeRun(_, _, _)
NativeRun(n, h, calls) ==
  IF calls = <<>> THEN n
  ELSE NativeRun(IF Head(calls).h = h THEN Native(n, Head(calls)) ELSE n,
                 h, Tail(calls))

\* The simulation state the same calls produce on a component of its own.
AloneRun(sim, calls) ==
  NativeRun([NoNative EXCEPT !.sim = sim],
            0, [k \in 1..Len(calls) |-> [calls[k] EXCEPT !.h = 0]]).sim

Succeeded(made, fn) ==
  \E k \in 1..Len(made) : made[k].fn = fn /\ made[k].status = fmi2OK

\* ------------------------------------------------------------- instantiate
\* A counter that is read but not advanced.
FetchAddStale(counter) == [read |-> counter, stored |-> counter]

\* A counter that hands out the value it has just stored.
FetchAddNew(counter) == [read |-> counter + 1, stored |-> counter + 1]

\* AtomicUsize::fetch_add(1, Relaxed): the value read and the value stored.
FetchAdd(counter) == [read |-> counter, stored |-> counter + 1]

\* A name made of the ordinal alone.
InstanceNameOrdinal(model_identifier, instance_counter) ==
  ToString(instance_counter)

\* InstanceNameFactory::next: format!("{}_{}", model_identifier, counter).
InstanceName(model_identifier, instance_counter) ==
  model_identifier \o "_" \o ToString(instance_counter)

\* The resource_location instantiate builds from the unpacked directory.
ResourceLocation(unpacked_dir) == "file://" \o Join(unpacked_dir, "resources")

\* FmuInstance::instantiate, up to and including instance_name_factory.next():
\* `lib` is moved in (a reference is copied), the callbacks are boxed, the
\* counter is fetched and incremented.
InstantiateName(i, l) ==
  /\ inst[i].state = "none"
  /\ \A j \in Insts : j < i => inst[j].state # "none"
  /\ lib[l].state = "loaded"
  /\ lib[l].user > 0
  /\ LET fa == FetchAdd(lib[l].counter)
         user == IF lib[l].kind = "ref" THEN lib[l].user ELSE lib[l].user - 1
     IN /\ lib' = [lib EXCEPT ![l].counter = fa.stored, ![l].user = user]
        /\ inst' = [inst EXCEPT ![i] =
             [NoInst EXCEPT !.state = "named", !.lib = l, !.callbacks = TRUE,
                            !.name = InstanceName(lib[l].mid, fa.read)]]
  /\ UNCHANGED <<native, caller, last>>

\* A null check that lets every component through.
IsNullNever(component) == FALSE

\* instance.is_null(): the null component is 0.
IsNull(component) == component = 0

\* An instantiate that lets the box go when it returns.
DropCallbacks(callbacks) == FALSE

\* Ok(Self { lib, instance, callbacks }): the box moves into the instance, the
\* table stays where it is.
MoveCallbacks(callbacks) == callbacks

\* FmuInstance::instantiate from the fmi2Instantiate call on: a null
\* component returns Err(FmuInstantiateFailed) and drops `lib` and the
\* callbacks; otherwise the instance holds the component.
InstantiateCall(i, nonnull) ==
  /\ inst[i].state = "named"
  /\ LET l == inst[i].lib
         h == IF nonnull THEN i ELSE 0
         c == Call("fmi2Instantiate", h, "none",
                   [name |-> inst[i].name, type |-> lib[l].simType,
                    resources |-> ResourceLocation(lib[l].unpacked_dir),
                    callbacks |-> inst[i].callbacks])
     IN /\ last' = [op |-> "instantiate", inst |-> i, arg |-> <<>>,
                    trace |-> <<c>>, out |-> <<>>,
                    ret |-> IF IsNull(h) THEN FmuInstantiateFailed ELSE Ok]
        /\ IF ~IsNull(h)
           THEN /\ inst' = [inst EXCEPT ![i].state = "live", ![i].handle = h,
                     ![i].callbacks = MoveCallbacks(inst[i].callbacks)]
                /\ native' = [native EXCEPT ![h] = Native(@, c)]
                /\ lib' = lib
           ELSE /\ inst' = [inst EXCEPT ![i].state = "failed",
                                        ![i].callbacks = FALSE]
                /\ native' = native
                /\ lib' = [lib EXCEPT ![l] =
                     Release(l, lib[l].user, Borrowers(l) \ {i})]
  /\ UNCHANGED caller

\* ------------------------------------------------------------------- drop
\* One component kept for the whole library: the first live instance's.
ComponentShared(i) ==
  inst[CHOOSE j \in Insts :
         inst[j].state = "live" /\ \A k \in Insts : inst[k].state = "live" => j <= k
      ].handle

\* self.instance: the component every method hands to the binary.
Component(i) == inst[i].handle

Live(i) == inst[i].state = "live"

\* A drop that forgets the component.
DropCallsSkipped(h) == <<>>

\* impl Drop for FmuInstance: the calls drop(&mut self) makes.
DropCalls(h) == <<Call("fmi2FreeInstance", h, "none", <<>>)>>

\* impl Drop for FmuInstance
DropInstance(i) ==
  /\ Live(i)
  /\ LET h == Component(i)
         made == DropCalls(h)
     IN /\ native' = [native EXCEPT ![h] = NativeRun(@, h, made)]
        /\ last' = [op |-> "drop", inst |-> i, arg |-> <<>>, out |-> <<>>,
                    trace |-> made, ret |-> Ok]
  /\ inst' = [inst EXCEPT ![i].state = "freed"]
  /\ UNCHANGED <<lib, caller>>

\* After Drop::drop the fields are dropped: `lib` (giving up the instance's
\* hold on the library), then the boxed callbacks.
DropInstanceFields(i) ==
  /\ inst[i].state = "freed"
  /\ LET l == inst[i].lib
     IN lib' = [lib EXCEPT ![l] = Release(l, lib[l].user, Borrowers(l) \ {i})]
  /\ inst' = [inst EXCEPT ![i].state = "released", ![i].callbacks = FALSE]
  /\ UNCHANGED <<native, caller, last>>

\* ------------------------------------------------ the methods of an instance
\* Option<f64>: is_some and unwrap_or.
None == <<>>
Some(x) == <<x>>
IsSome(o) == o # None
UnwrapOr(o, d) == IF IsSome(o) THEN o[1] ELSE d

\* `as fmi2Boolean`
AsFmi2Boolean(b) == IF b THEN 1 ELSE 0

\* A method of instance i that made the calls `made` and returns `ret`: the
\* binary has run them, the caller sees the result.
Method(i, op, arg, made, ret, out) ==
  /\ last' = [op |-> op, inst |-> i, arg |-> arg, trace |-> made,
              ret |-> ret, out |-> out]
  /\ native' = [h \in Insts |-> NativeRun(native[h], h, made)]
  /\ inst' = [inst EXCEPT ![i].alone = AloneRun(@, made)]
  /\ lib' = lib

\* FmuInstance::set_debug_logging
SetDebugLogging(i, logging_on, log_categories, status) ==
  /\ Live(i)
  /\ LET made == Made(<<Call("fmi2SetDebugLogging", Component(i), status,
                             [loggingOn |-> AsFmi2Boolean(logging_on),
                              nCategories |-> Len(log_categories),
                              categories |-> log_categories])>>)
     IN Method(i, "set_debug_logging", <<logging_on, log_categories>>, made,
               ChainResult(made), <<>>)
  /\ UNCHANGED caller

\* FmuInstance::setup_experiment: an absent stop time or tolerance is passed
\* as a false flag and 0.0.
SetupExperiment(i, start_time, stop_time, tolerance, status) ==
  /\ Live(i)
  /\ LET made == Made(<<Call("fmi2SetupExperiment", Component(i), status,
                   [toleranceDefined |-> AsFmi2Boolean(IsSome(tolerance)),
                    tolerance |-> UnwrapOr(tolerance, 0),
                    startTime |-> start_time,
                    stopTimeDefined |-> AsFmi2Boolean(IsSome(stop_time)),
                    stopTime |-> UnwrapOr(stop_time, 0)])>>)
     IN Method(i, "setup_experiment", <<start_time, stop_time, tolerance>>,
               made, ChainResult(made), <<>>)
  /\ UNCHANGED caller

\* FmuInstance::enter_initialization_mode
EnterInitializationMode(i, status) ==
  /\ Live(i)
  /\ LET made == Made(<<Call("fmi2EnterInitializationMode", Component(i),
                             status, <<>>)>>)
     IN Method(i, "enter_initialization_mode", <<>>, made, ChainResult(made),
               <<>>)
  /\ UNCHANGED caller

\* FmuInstance::exit_initialization_mode
ExitInitializationMode(i, status) ==
  /\ Live(i)
  /\ LET made == Made(<<Call("fmi2ExitInitializationMode", Component(i),
                             status, <<>>)>>)
     IN Method(i, "exit_initialization_mode", <<>>, made, ChainResult(made),
               <<>>)
  /\ UNCHANGED caller

\* A do_step that always tells the binary no state was set.
StepFlagAlwaysTrue(no_set_fmustate_prior_to_current_point) == 1

\* The flag do_step hands to fmi2DoStep: the caller's, converted.
StepFlag(no_set_fmustate_prior_to_current_point) ==
  AsFmi2Boolean(no_set_fmustate_prior_to_current_point)

\* FmuInstance::do_step. The caller passes the time its instance has reached.
DoStep(i, communication_step_size, no_set_fmustate_prior_to_current_point, status) ==
  /\ Live(i)
  /\ native[Component(i)].sim.t + communication_step_size <= MaxTime
  /\ inst[i].alone.t + communication_step_size <= MaxTime
  /\ LET made == Made(<<Call("fmi2DoStep", Component(i), status,
                   [currentCommunicationPoint |-> inst[i].alone.t,
                    communicationStepSize |-> communication_step_size,
                    noSetFMUStatePriorToCurrentPoint |->
                      StepFlag(no_set_fmustate_prior_to_current_point)])>>)
     IN Method(i, "do_step",
               <<communication_step_size,
                 no_set_fmustate_prior_to_current_point>>,
               made, ChainResult(made), <<>>)
  /\ UNCHANGED caller

\* ------------------------------------------------------------- get and set
\* A map keyed by value reference: aliases fall into one entry.
ZipCollectByRef(signals, values) ==
  [v \in {signals[k] : k \in {j \in 1..Len(signals) :
             \A m \in 1..(j - 1) :
               signals[m].value_reference # signals[j].value_reference}} |->
     values[CHOOSE k \in 1..Len(signals) : signals[k] = v]]

\* zip(signals, values).collect::<HashMap<_, _>>(): keyed by the variable
\* (compared by name), a later pair replacing an earlier one with that key.
ZipCollect(signals, values) ==
  [v \in {signals[k] : k \in 1..Len(signals)} |->
     LET ks == {k \in 1..Len(signals) : signals[k].name = v.name}
     IN values[CHOOSE k \in ks : \A j \in ks : j <= k]]

\* A get that hands out the buffer whatever the status.
GetPartial(i, signals, status) ==
  /\ Live(i)
  /\ LET h == Component(i)
         vrs == [k \in 1..Len(signals) |-> signals[k].value_reference]
         values == NativeGet(native[h].sim, vrs)
         made == <<Call("fmi2Get", h, status,
                        [vr |-> vrs, nvr |-> Len(signals),
                         buffer |-> Len(signals)])>>
     IN Method(i, "get", signals, made,
               IF status = fmi2OK THEN Ok ELSE BadFunctionCall(status),
               ZipCollect(signals, values))
  /\ UNCHANGED caller

\* FmuInstance::get (get_reals, get_integers, get_booleans)
Get(i, signals, status) ==
  /\ Live(i)
  /\ LET h == Component(i)
         vrs == [k \in 1..Len(signals) |-> signals[k].value_reference]
         values == NativeGet(native[h].sim, vrs)
         made == <<Call("fmi2Get", h, status,
                        [vr |-> vrs, nvr |-> Len(signals),
                         buffer |-> Len(signals)])>>
     IN Method(i, "get", signals, made,
               IF status = fmi2OK THEN Ok ELSE BadFunctionCall(status),
               IF status = fmi2OK THEN ZipCollect(signals, values) ELSE <<>>)
  /\ UNCHANGED caller

\* The orders in which value_map.iter() may enumerate a map's entries.
IterOrders(S) ==
  {f \in [1..Cardinality(S) -> S] : \A x \in S : \E k \in DOMAIN f : f[k] = x}

\* A set whose value array is filled in the reverse of the order of its
\* value reference array.
SetMisaligned(i, value_map, order, status) ==
  /\ Live(i)
  /\ order \in IterOrders(DOMAIN value_map)
  /\ LET len == Cardinality(DOMAIN value_map)
         vrs == [k \in 1..len |-> order[k].value_reference]
         values == [k \in 1..len |-> value_map[order[len + 1 - k]]]
         made == Made(<<Call("fmi2Set", Component(i), status,
                             [vr |-> vrs, nvr |-> len, value |-> values])>>)
     IN Method(i, "set", value_map, made, ChainResult(made), <<>>)
  /\ UNCHANGED caller

\* FmuInstance::set (set_reals, set_integers, set_booleans): `order` is the
\* order value_map.iter() happens to enumerate the entries in.
Set(i, value_map, order, status) ==
  /\ Live(i)
  /\ order \in IterOrders(DOMAIN value_map)
  /\ LET len == Cardinality(DOMAIN value_map)
         vrs == [k \in 1..len |-> order[k].value_reference]
         values == [k \in 1..len |-> value_map[order[k]]]
         made == Made(<<Call("fmi2Set", Component(i), status,
                             [vr |-> vrs, nvr |-> len, value |-> values])>>)
     IN Method(i, "set", value_map, made, ChainResult(made), <<>>)
  /\ UNCHANGED caller

\* ---------------------------------------------------------------- snapshots
\* The calls serialized_fmu_state_size chains with `?`.
SerializedFmuStateSizeCalls(h, sts) ==
  <<Call("fmi2GetFMUstate", h, sts[1], <<>>),
    Call("fmi2SerializedFMUstateSize", h, sts[2], <<>>),
    Call("fmi2FreeFMUstate", h, sts[3], <<>>)>>

\* FmuInstance::serialized_fmu_state_size
SerializedFmuStateSize(i, sts) ==
  /\ Live(i)
  /\ native[Component(i)].captures < MaxCaptures
  /\ LET made == Made(SerializedFmuStateSizeCalls(Component(i), sts))
     IN /\ Method(i, "serialized_fmu_state_size", <<>>, made,
                  ChainResult(made), <<>>)
        /\ caller' = [caller EXCEPT !.size =
             IF Succeeded(made, "fmi2SerializedFMUstateSize")
             THEN StateBytes ELSE @]

\* The calls serialize_fmu_state chains with `?`.
SerializeFmuStateCalls(h, blen, size, sts) ==
  <<Call("fmi2GetFMUstate", h, sts[1], <<>>),
    Call("fmi2SerializeFMUstate", h, sts[2], [size |-> size, buffer |-> blen]),
    Call("fmi2FreeFMUstate", h, sts[3], <<>>)>>

\* FmuInstance::serialize_fmu_state: `blen` is serialized_state.len(). The
\* binary refuses a size smaller than the state needs.
SerializeFmuState(i, blen, size, sts) ==
  /\ Live(i)
  /\ native[Component(i)].captures < MaxCaptures
  /\ size < StateBytes => sts[2] # fmi2OK
  /\ LET h == Component(i)
         made == Made(SerializeFmuStateCalls(h, blen, size, sts))
     IN /\ Method(i, "serialize_fmu_state", <<blen, size>>, made,
                  ChainResult(made), <<>>)
        /\ caller' =
             IF Succeeded(made, "fmi2SerializeFMUstate")
             THEN [caller EXCEPT !.buf = Written(native[h].sim, blen),
                                 !.of = native[h].sim, !.taken = TRUE,
                                 !.mid = lib[inst[i].lib].mid, !.from = i]
             ELSE caller

\* A deserialize that rebuilds the state object and frees it without setting it.
DeserializeFmuStateCallsNoSet(h, bytes, size, sts) ==
  <<Call("fmi2DeSerializeFMUstate", h, sts[1],
         [size |-> size, buffer |-> Len(bytes)]),
    Call("fmi2FreeFMUstate", h, sts[3], <<>>)>>

\* The calls deserialize_fmu_state chains with `?`: the state object
\* fmi2DeSerializeFMUstate rebuilt from the bytes is the one set and freed.
DeserializeFmuStateCalls(h, bytes, size, sts) ==
  <<Call("fmi2DeSerializeFMUstate", h, sts[1],
         [size |-> size, buffer |-> Len(bytes)]),
    Call("fmi2SetFMUstate", h, sts[2],
         [state |-> IF Len(bytes) >= StateBytes THEN Decode(bytes)
                    ELSE SimStart]),
    Call("fmi2FreeFMUstate", h, sts[3], <<>>)>>

\* FmuInstance::deserialize_fmu_state on the caller's buffer. The binary
\* refuses bytes that are not a whole state of its own model.
DeserializeFmuState(i, size, sts) ==
  /\ Live(i)
  /\ native[Component(i)].captures < MaxCaptures
  /\ (\/ size < StateBytes
      \/ Len(caller.buf) < StateBytes
      \/ caller.mid # lib[inst[i].lib].mid) => sts[1] # fmi2OK
  /\ LET made == Made(DeserializeFmuStateCalls(Component(i), caller.buf,
                                               size, sts))
     IN Method(i, "deserialize_fmu_state", <<Len(caller.buf), size>>, made,
               ChainResult(made), <<>>)
  /\ UNCHANGED caller

\* ------------------------------------------------------------ specifications
\* The inputs the callers and the binary choose from.
Kinds == {"ref", "box", "arc"}
StepSizes == {1, 2}
StopTimes == {None, Some(MaxTime)}
Categories == {<<>>, <<"logAll">>}
Signals == UNION {[1..n -> Registry] : n \in 0..MaxSignals}
ValueMaps ==
  UNION {[S -> Vals] : S \in {T \in SUBSET Registry : Cardinality(T) <= MaxSignals}}
\* What the binary returns to a chain of three calls. The calls after the
\* first failing one are not made by the code; should they be, they succeed.
Chains(S) ==
  {sts \in [1..3 -> S] :
     \A k \in 1..2 : sts[k] # fmi2OK => \A j \in (k + 1)..3 : sts[j] = fmi2OK}
OkOrError == {"fmi2OK", "fmi2Error"}

\* Bundles that unpack: a readable archive with a valid description.
GoodBundles(ids, caps) ==
  {[file |-> "archive", entries |-> "ok", md |-> "valid",
    id |-> id, cs |-> c[1], me |-> c[2]] : id \in ids, c \in caps}
Linux64 == [os |-> "linux", arch |-> "x86_64"]
\* What surrounds a run: the bundles at hand, whether a tempdir can be made,
\* the target directories the caller names, the host.
Plain(ids, caps) ==
  [bundles |-> GoodBundles(ids, caps), tempdir |-> {TRUE},
   targets |-> {"/data/out"}, hosts |-> {Linux64}]

\* Packages and libraries: unpack, load, share, release.
PackageOps(L, world, kinds) ==
  \/ \E l \in L, bundle \in world.bundles, tempdir \in world.tempdir :
       Unpack(l, bundle, tempdir)
  \/ \E l \in L, bundle \in world.bundles, target_dir \in world.targets :
       UnpackTo(l, bundle, target_dir)
  \/ \E l \in L, ty \in fmi2Type, host \in world.hosts, binary \in BOOLEAN,
          kind \in kinds :
       Load(l, ty, host, binary, kind)
  \/ \E l \in L : DropPackage(l)
  \/ \E l \in L : DropHandle(l)
  \/ \E l \in L : FinishLibraryDrop(l)

\* Sharing a library held in an Arc.
ShareOps(L) == \E l \in L : ArcClone(l)

\* Creating and releasing instances.
InstanceOps(I, L) ==
  \/ \E i \in I, l \in L : InstantiateName(i, l)
  \/ \E i \in I, nonnull \in BOOLEAN : InstantiateCall(i, nonnull)
  \/ \E i \in I : DropInstance(i)
  \/ \E i \in I : DropInstanceFields(i)

\* The lifecycle methods of a live instance.
LifecycleOps(I, S, stops) ==
  \/ \E i \in I, stop \in stops, st \in S :
       SetupExperiment(i, 0, stop, None, st)
  \/ \E i \in I, st \in S : EnterInitializationMode(i, st)
  \/ \E i \in I, st \in S : ExitInitializationMode(i, st)

StepOps(I, S, sizes, flags) ==
  \E i \in I, dt \in sizes, flag \in flags, st \in S : DoStep(i, dt, flag, st)

\* Logging and values of a live instance.
SignalOps(I, S, sigs, maps) ==
  \/ \E i \in I, on \in BOOLEAN, cats \in Categories, st \in S :
       SetDebugLogging(i, on, cats, st)
  \/ \E i \in I, signals \in sigs, st \in S : Get(i, signals, st)
  \/ \E i \in I, vm \in maps, st \in S :
       \E order \in IterOrders(DOMAIN vm) : Set(i, vm, order, st)

\* Snapshots, by a caller that sizes its buffer with the size it was given.
SnapshotOps(I, S) ==
  \/ \E i \in I, sts \in Chains(S) : SerializedFmuStateSize(i, sts)
  \/ \E i \in I, sts \in Chains(S) :
       SerializeFmuState(i, caller.size, caller.size, sts)
  \/ \E i \in I, sts \in Chains(S) : DeserializeFmuState(i, caller.size, sts)

\* Snapshots by a caller that passes a size of its own choosing along with
\* its buffer.
BufferOps(I, S, sizes) ==
  \/ \E i \in I, sts \in Chains(S) : SerializedFmuStateSize(i, sts)
  \/ \E i \in I, size \in sizes, sts \in Chains(S) :
       SerializeFmuState(i, caller.size, size, sts)
  \/ \E i \in I, size \in sizes, sts \in Chains(S) :
       DeserializeFmuState(i, size, sts)

CoSimOnly == {<<TRUE, FALSE>>}
Solo == {1}
HStart == CHOOSE v \in Registry : v.name = "h_start"
HM == CHOOSE v \in Registry : v.name = "h_m"
H == CHOOSE v \in Registry : v.name = "h"

\* Ownership: every way of holding a package and its library, instances
\* taken through their lifecycle and released.
Next ==
  \/ PackageOps(Solo, Plain({"free_fall"}, CoSimOnly), Kinds)
  \/ ShareOps(Solo)
  \/ InstanceOps(Insts, Solo)
  \/ LifecycleOps(Insts, {fmi2OK}, {None})
  \/ StepOps(Insts, OkOrError, {1}, {TRUE})

Spec == Init /\ [][Next]_vars

\* One instance of one library, every method, every status.
NextCalls ==
  \/ PackageOps(Solo, Plain({"free_fall"}, CoSimOnly), {"ref"})
  \/ InstanceOps(Solo, Solo)
  \/ LifecycleOps(Solo, fmi2Status, {None})
  \/ StepOps(Solo, fmi2Status, {1}, BOOLEAN)
  \/ SignalOps(Solo, fmi2Status, {<<HM>>}, [{HStart} -> {1}])
  \/ SnapshotOps(Solo, fmi2Status)

SpecCalls == Init /\ [][NextCalls]_vars

\* Two instances of one library stepped side by side, with values set and
\* snapshots taken and restored.
NextSim ==
  \/ PackageOps(Solo, Plain({"free_fall"}, CoSimOnly), {"ref"})
  \/ InstanceOps(Insts, Solo)
  \/ StepOps(Insts, {fmi2OK}, StepSizes, {FALSE})
  \/ SignalOps(Insts, {fmi2OK}, {<<HM>>}, [{HStart} -> {1}])
  \/ SnapshotOps(Insts, {fmi2OK})

SpecSim == Init /\ [][NextSim]_vars

\* Instantiate calls in flight at once, against one library and against two
\* libraries loaded from the same or from different bundles.
NextNames ==
  \/ PackageOps(Libs, Plain(ModelIds, CoSimOnly), {"ref"})
  \/ InstanceOps(Insts, Libs)

SpecNames == Init /\ [][NextNames]_vars

\* One instance whose variables are read and written: every request list and
\* every value map, aliases and repeated variables included.
NextSignals ==
  \/ PackageOps(Solo, Plain({"free_fall"}, CoSimOnly), {"ref"})
  \/ InstanceOps(Solo, Solo)
  \/ LifecycleOps(Solo, {fmi2OK}, {None})
  \/ StepOps(Solo, {fmi2OK}, {1}, {TRUE})
  \/ SignalOps(Solo, OkOrError, Signals, ValueMaps)

SpecSignals == Init /\ [][NextSignals]_vars

\* Every bundle and every surrounding: files that are missing, unreadable or
\* no archive, descriptions that are absent or malformed, model identifiers
\* with dots, target directories that are relative or cannot be written,
\* hosts in and outside the tables of load.
Files == {"missing", "unreadable", "io_error", "not_archive", "archive"}
Descriptions == {"absent", "malformed", "valid"}
Identifiers == {"free_fall", "my.model", ".m"}
Hosts ==
  [os : {"macos", "linux", "windows", "freebsd"},
   arch : {"x86", "x86_64", "aarch64", "riscv64"}]
Anywhere ==
  [bundles |-> [file : Files, entries : {"ok", "unsupported"},
                md : Descriptions, id : Identifiers,
                cs : BOOLEAN, me : BOOLEAN],
   tempdir |-> BOOLEAN,
   targets |-> {"/data/out", "out", "/z/dasd"},
   hosts |-> Hosts]

\* One package unpacked, loaded and instantiated in every surrounding.
NextPackage ==
  \/ PackageOps(Solo, Anywhere, {"ref"})
  \/ InstanceOps(Solo, Solo)

SpecPackage == Init /\ [][NextPackage]_vars

\* A variable of another model's registry (length_m of the point mass), whose
\* value reference happens to be one this model uses too.
Foreign == [name |-> "length_m", value_reference |-> 1]

\* One instance asked for, and given, variables of another model.
NextForeign ==
  \/ PackageOps(Solo, Plain({"free_fall"}, CoSimOnly), {"ref"})
  \/ InstanceOps(Solo, Solo)
  \/ StepOps(Solo, {fmi2OK}, {1}, {TRUE})
  \/ SignalOps(Solo, OkOrError, {<<Foreign>>, <<HM, Foreign>>, <<HM>>},
               [{Foreign} -> Vals] \cup [{HStart, Foreign} -> Vals])

SpecForeign == Init /\ [][NextForeign]_vars

\* One instance snapshotted and restored with every size argument, whatever
\* the length of the buffer.
NextBuffers ==
  \/ PackageOps(Solo, Plain({"free_fall"}, CoSimOnly), {"ref"})
  \/ InstanceOps(Solo, Solo)
  \/ StepOps(Solo, {fmi2OK}, {1}, {TRUE})
  \/ BufferOps(Solo, OkOrError, 0..(StateBytes + 1))

SpecBuffers == Init /\ [][NextBuffers]_vars

\* ------------------------------------------------------------------ claims
Created(i) == inst[i].handle # 0
WasLoaded(l) == lib[l].kind # "none"

\* C1: the binary's free-instance entry has been invoked exactly once for
\* every instance that has been released, and not at all for an instance
\* that is still alive or for an attempt that returned no component.
C1_FreedExactlyOnce ==
  \A i \in Insts :
    native[i].frees = IF inst[i].state \in {"freed", "released"} THEN 1 ELSE 0

\* Two released instances: one that had stepped, one that never got past
\* instantiate.
C1_Witness ==
  \E i, j \in Insts :
    /\ inst[i].state = "released" /\ native[i].frees = 1
    /\ native[i].sim.t > 0
    /\ inst[j].state = "released" /\ native[j].frees = 1
    /\ native[j].sim.t = 0

\* C5: a library is unloaded only once every instance created from it has
\* been freed and has given up its hold, and an ephemeral package directory
\* is deleted only once the library is unloaded.
C5_ReleaseOrder ==
  \A l \in Libs :
    /\ (WasLoaded(l) /\ ~lib[l].dll) =>
         \A i \in Insts :
           inst[i].lib = l =>
             /\ inst[i].state \in {"failed", "released"}
             /\ Created(i) => native[inst[i].handle].frees = 1
    /\ lib[l].dll => lib[l].dir

\* A shared library whose two instances were freed, which was then unloaded
\* and whose ephemeral directory was then deleted.
C5_Witness ==
  \E l \in Libs :
    /\ lib[l].state = "gone" /\ lib[l].kind = "arc"
    /\ lib[l].temp /\ ~lib[l].dir /\ ~lib[l].dll
    /\ \A i \in {1, 2} : inst[i].lib = l /\ inst[i].state = "released"
\* The order the FMI state machine allows lifecycle entry points in.
Rank(fn) ==
  CASE fn = "none" -> 0
    [] fn = "fmi2Instantiate" -> 1
    [] fn = "fmi2SetupExperiment" -> 2
    [] fn = "fmi2EnterInitializationMode" -> 3
    [] fn = "fmi2ExitInitializationMode" -> 4
    [] fn = "fmi2DoStep" -> 5
    [] fn = "fmi2FreeInstance" -> 6
InOrder(a, b) == b = "fmi2FreeInstance" \/ Rank(b) = Rank(a) + 1

\* C2: whenever the last lifecycle entry point the binary has seen for a
\* component changes, it changes to the next one of the order instantiate,
\* setupExperiment, enterInitializationMode, exitInitializationMode, doStep,
\* or to freeInstance: no wrapper call makes it skip a step or go back.
C2_LifecycleOrder ==
  [][\A h \in Insts :
       native'[h].phase # native[h].phase =>
         InOrder(native[h].phase, native'[h].phase)]_vars

Snapshotting == {"serialized_fmu_state_size", "serialize_fmu_state"}
Calls(fn) == {k \in 1..Len(last.trace) : last.trace[k].fn = fn}

\* C8: when the size or the serialize operation has returned, a capture its
\* get-state call obtained has been handed to a free-state call.
C8_CaptureReleased ==
  (last.op \in Snapshotting /\ Succeeded(last.trace, "fmi2GetFMUstate")) =>
    Calls("fmi2FreeFMUstate") # {}

\* The component a method of `last` was called on, and whether `last` is a
\* do_step that has just been issued.
StepIssued == last' # last /\ last'.op = "do_step"
StepArg == last'.trace[1].arg.noSetFMUStatePriorToCurrentPoint

\* C9 as claimed: a doStep issued while the component's state has been set by
\* a restore and not stepped since reaches the binary with
\* noSetFMUStatePriorToCurrentPoint = false.
C9_FlagFalseAfterRestore ==
  [][(StepIssued /\ native[last'.trace[1].h].stateSet) => StepArg = 0]_vars

\* C9 as amended: such a doStep reaches the binary with the flag the caller
\* passed to do_step: false exactly when the caller passed false.
C9_FlagForwarded ==
  [][(StepIssued /\ native[last'.trace[1].h].stateSet) =>
       (StepArg = 0 <=> last'.arg[2] = FALSE)]_vars

\* A doStep issued after a restore, with the caller's false, that the binary
\* turned down: its state is still the restored one.
C9_Witness ==
  /\ last.op = "do_step" /\ last.arg[2] = FALSE
  /\ last.trace[1].arg.noSetFMUStatePriorToCurrentPoint = 0
  /\ native[last.trace[1].h].stateSet
  /\ native[last.trace[1].h].sim = caller.of

Checked ==
  {"set_debug_logging", "setup_experiment", "enter_initialization_mode",
   "exit_initialization_mode", "do_step", "get", "set",
   "serialized_fmu_state_size", "serialize_fmu_state", "deserialize_fmu_state"}
NotOk == {k \in 1..Len(last.trace) : last.trace[k].status # fmi2OK}

\* C10: an operation returns success exactly when every call it made returned
\* fmi2OK; otherwise it returns BadFunctionCall with the status of the first
\* call that did not, that call is the last one it made, and no entry point
\* was called twice.
C10_StatusSurfaced ==
  last.op \in Checked =>
    /\ last.trace # <<>>
    /\ last.ret = Ok <=> NotOk = {}
    /\ NotOk # {} =>
         /\ NotOk = {Len(last.trace)}
         /\ last.ret = BadFunctionCall(last.trace[Len(last.trace)].status)
    /\ \A j, k \in 1..Len(last.trace) :
         last.trace[j].fn = last.trace[k].fn => j = k

\* A serialize whose second call returned fmi2Warning: two calls made, the
\* warning returned.
C10_Witness ==
  /\ last.op = "serialize_fmu_state"
  /\ Len(last.trace) = 2
  /\ last.ret = BadFunctionCall("fmi2Warning")
\* C6: the simulation state the binary holds for every live instance is the
\* one that instance's own calls produce on a component of its own, whatever
\* was done to the other instances in between.
C6_Independent ==
  \A i \in Insts :
    inst[i].state = "live" => native[inst[i].handle].sim = inst[i].alone

\* Two live instances stepped with different step sizes.
C6_Witness ==
  /\ inst[1].state = "live" /\ inst[2].state = "live"
  /\ native[inst[1].handle].sim.t = 1
  /\ native[inst[2].handle].sim.t = 2
  /\ native[inst[1].handle].sim.val # native[inst[2].handle].sim.val

Restored(op) == op.op = "deserialize_fmu_state" /\ op.ret = Ok
Stepped(op) == op.op = "do_step" /\ op.ret = Ok
SimOf(i) == native'[inst[i].handle].sim

\* C7 as claimed: the step after a restore leaves the state that two steps
\* from the state the snapshot was taken in produce.
C7_StepTwice ==
  [][(Restored(last) /\ last' # last /\ Stepped(last') /\ last'.inst = last.inst)
       => SimOf(last.inst) =
            NativeStep(NativeStep(caller.of, last'.arg[1]), last'.arg[1])]_vars

\* C7 as amended: right after a restore the state is the one the snapshot was
\* taken in, and a step after the restore leaves the state that one step from
\* the state the snapshot was taken in produces.
C7_RoundTrip ==
  [][/\ (last' # last /\ Restored(last')) => SimOf(last'.inst) = caller.of
     /\ (Restored(last) /\ last' # last /\ Stepped(last')
           /\ last'.inst = last.inst)
          => SimOf(last.inst) = NativeStep(caller.of, last'.arg[1])]_vars

\* A snapshot taken on an instance that had stepped and had a value set,
\* restored into the other instance.
C7_Witness ==
  /\ Restored(last)
  /\ caller.from # 0 /\ last.inst # caller.from
  /\ caller.of.t > 0 /\ caller.of.val[0] = 1
  /\ native[inst[last.inst].handle].sim = caller.of
Named(i) == inst[i].state # "none"
Pairs == {p \in Insts \X Insts : p[1] # p[2] /\ Named(p[1]) /\ Named(p[2])}

\* C3: any two instantiate calls made against the same loaded library, in
\* whatever order their steps interleave, were given different instance names.
C3_DistinctPerLibrary ==
  \A p \in Pairs :
    inst[p[1]].lib = inst[p[2]].lib => inst[p[1]].name # inst[p[2]].name

\* Two instantiate calls on one library, both past the counter and neither
\* yet past the native call.
C3_Witness ==
  /\ inst[1].state = "named" /\ inst[2].state = "named"
  /\ inst[1].lib = inst[2].lib
  /\ inst[1].name # inst[2].name

\* C4 as claimed: any two instantiate calls of the process were given
\* different instance names, whichever libraries they were made against.
C4_ProcessUnique ==
  \A p \in Pairs : inst[p[1]].name # inst[p[2]].name

\* C4 as amended: two instantiate calls were given the same name only when
\* they were made against two different loaded libraries whose packages have
\* the same model identifier; each library numbers its instances from zero.
C4_UniquePerLoadedLibrary ==
  /\ \A p \in Pairs :
       inst[p[1]].name = inst[p[2]].name
         => /\ inst[p[1]].lib # inst[p[2]].lib
            /\ lib[inst[p[1]].lib].mid = lib[inst[p[2]].lib].mid
  /\ \A i \in Insts :
       Named(i) =>
         \E k \in 0..(lib[inst[i].lib].counter - 1) :
           inst[i].name = InstanceName(lib[inst[i].lib].mid, k)

\* The same bundle loaded twice, one instantiate call on each library.
C4_Witness ==
  /\ inst[1].state = "live" /\ inst[2].state = "live"
  /\ inst[1].lib # inst[2].lib
  /\ lib[inst[1].lib].mid = lib[inst[2].lib].mid
  /\ inst[1].name = inst[2].name
SimNow(i) == native[inst[i].handle].sim

\* C11: a get makes exactly one native get call, whose count is the number
\* of requested variables and the length of the value reference array and of
\* the output buffer; when its status is not OK the caller gets the failure
\* with that status and no value.
C11_GetAllOrNothing ==
  last.op = "get" =>
    /\ Len(last.trace) = 1
    /\ last.trace[1].fn = "fmi2Get"
    /\ last.trace[1].arg.nvr = Len(last.arg)
    /\ Len(last.trace[1].arg.vr) = Len(last.arg)
    /\ last.trace[1].arg.buffer = Len(last.arg)
    /\ last.trace[1].status = fmi2OK => last.ret = Ok
    /\ last.trace[1].status # fmi2OK =>
         /\ last.ret = BadFunctionCall(last.trace[1].status)
         /\ last.out = <<>>

\* A failed get of two variables of which one has a non-zero value.
C11_Witness ==
  /\ last.op = "get" /\ last.ret = BadFunctionCall("fmi2Error")
  /\ Len(last.arg) = 2
  /\ SimNow(last.inst).val[last.arg[1].value_reference] = 1

\* C12: a successful get returns one entry for every requested variable, and
\* the entry of the variable at each position of the request is the value of
\* that variable's value reference, also for aliases and repeated variables.
C12_GetMapsEveryVariable ==
  (last.op = "get" /\ last.ret = Ok) =>
    /\ DOMAIN last.out = {last.arg[k] : k \in 1..Len(last.arg)}
    /\ \A k \in 1..Len(last.arg) :
         last.out[last.arg[k]] =
           SimNow(last.inst).val[last.arg[k].value_reference]

\* A successful get of two aliases whose shared value is not the initial one.
C12_Witness ==
  /\ last.op = "get" /\ last.ret = Ok
  /\ last.arg = <<HM, H>>
  /\ SimNow(last.inst).val[HM.value_reference] = 1

SetDone == last' # last /\ last'.op = "set" /\ last'.ret = Ok
SetArrays(value_map, order) ==
  [vr |-> [k \in 1..Len(order) |-> order[k].value_reference],
   value |-> [k \in 1..Len(order) |-> value_map[order[k]]]]

\* C13: the values the binary holds after a successful set are the ones that
\* every enumeration order of the map's entries leads to.
C13_OrderIndependent ==
  [][SetDone =>
       \A order \in IterOrders(DOMAIN last'.arg) :
         native'[inst[last'.inst].handle].sim =
           NativeSet(SimNow(last'.inst),
                     SetArrays(last'.arg, order).vr,
                     SetArrays(last'.arg, order).value)]_vars

Quiet == {"get", "set_debug_logging", "setup_experiment",
          "enter_initialization_mode", "exit_initialization_mode"}

\* C14: a successful set of the parameter h_start leaves its value in the
\* binary, no lifecycle, logging or get operation changes it, and a
\* successful get of h_start returns the value the binary holds: a get that
\* follows the set with no step in between returns the value that was set.
C14_GetAfterSet ==
  [][/\ (SetDone /\ HStart \in DOMAIN last'.arg)
          => native'[inst[last'.inst].handle].sim.val[HStart.value_reference]
               = last'.arg[HStart]
     /\ (last' # last /\ last'.op \in Quiet)
          => native'[inst[last'.inst].handle].sim = SimNow(last'.inst)
     /\ (last' # last /\ last'.op = "get" /\ last'.ret = Ok)
          => \A k \in 1..Len(last'.arg) :
               last'.arg[k] = HStart =>
                 last'.out[HStart] = SimNow(last'.inst).val[HStart.value_reference]
    ]_vars

\* h_start read back as 1 in initialization mode: the value was set.
C14_Witness ==
  /\ last.op = "get" /\ last.ret = Ok
  /\ HStart \in DOMAIN last.out
  /\ last.out[HStart] = 1
  /\ native[inst[last.inst].handle].phase = "fmi2EnterInitializationMode"
\* C15: an instantiate whose native call returned the null component returns
\* FmuInstantiateFailed, leaves no instance, and no free-instance call is ever
\* made for it; one whose native call returned a component returns a live
\* instance holding that component.
C15_NullIsFailure ==
  /\ last.op = "instantiate" =>
       /\ last.ret = (IF last.trace[1].h = 0 THEN FmuInstantiateFailed ELSE Ok)
       /\ inst[last.inst].state = "live" =>
            inst[last.inst].handle = last.trace[1].h
  /\ \A i \in Insts :
       /\ inst[i].state = "failed" =>
            /\ inst[i].handle = 0
            /\ \A h \in Insts : native[h].frees > 0 => inst[h].handle = h
       /\ inst[i].state \in {"live", "freed", "released"} =>
            /\ inst[i].handle # 0
            /\ native[inst[i].handle].phase # "none"

\* A failed instantiate followed by one that succeeded and was released.
C15_Witness ==
  /\ inst[1].state = "failed" /\ inst[2].state = "released"
  /\ native[inst[2].handle].frees = 1
  /\ native[1].frees = 0
Loading == last.op = "load"
Requested == last.arg.simulation_type
BlockAbsent ==
  \/ Requested = "fmi2ModelExchange" /\ ~lib[last.arg.lib].me
  \/ Requested = "fmi2CoSimulation" /\ ~lib[last.arg.lib].cs

\* C16: a load for a mode whose capability block the description lacks
\* returns the error of that mode without any attempt to open a library,
\* whether or not a binary could be opened; a load for a mode whose block is
\* there goes on to open the library.
C16_ModeNotSupported ==
  Loading =>
    /\ BlockAbsent =>
         /\ last.ret = FmuLoadError(IF Requested = "fmi2ModelExchange"
                                    THEN "NoModelExchangeModel"
                                    ELSE "NoCoSimulationModel")
         /\ last.trace = <<>>
         /\ ~lib[last.arg.lib].dll
    /\ ~BlockAbsent =>
         /\ Len(last.trace) = 1
         /\ last.ret = (IF last.arg.binary THEN Ok ELSE FmuLoadError("DLOpen"))

\* Model exchange requested of a co-simulation package whose binary is there.
C16_Witness ==
  /\ Loading /\ Requested = "fmi2ModelExchange"
  /\ lib[last.arg.lib].cs /\ ~lib[last.arg.lib].me
  /\ last.arg.binary
  /\ last.ret = FmuLoadError("NoModelExchangeModel")

\* C17: an unpack of a missing or unreadable bundle, its tempdir made,
\* returns InvalidFile, and no failed unpack leaves its ephemeral directory.
C17_NoEphemeralLeftover ==
  /\ (/\ last.op = "unpack" /\ last.arg.tempdir
      /\ last.arg.bundle.file \in {"missing", "unreadable"})
       => last.ret = FmuUnpackError("InvalidFile")
  /\ \A l \in Libs : (lib[l].state = "failed" /\ lib[l].temp) => ~lib[l].dir

\* An unpack of a missing bundle after its tempdir was made.
C17_Witness ==
  /\ last.op = "unpack" /\ last.arg.tempdir
  /\ last.arg.bundle.file = "missing"
  /\ last.ret = FmuUnpackError("InvalidFile")
  /\ lib[last.arg.lib].state = "failed" /\ ~lib[last.arg.lib].dir

\* C18: every unpack and unpack_to returns: its result is Ok or one of the
\* error kinds, never a panic.
C18_NeverPanics ==
  last.op \in {"unpack", "unpack_to"} =>
    last.ret \in {Ok} \cup
      {FmuUnpackError(kind) :
         kind \in {"NoTempdir", "InvalidFile", "InvalidArchive",
                   "InvalidOutputDir", "InvalidModelDescription"}}

Absolute(path) == IF IsAbsolute(path) THEN path ELSE Join(CurrentDir, path)

\* C19: the resource location every native instantiate call receives is
\* file:// followed by the absolute path of the unpacked resources directory.
C19_AbsoluteResources ==
  last.op = "instantiate" =>
    last.trace[1].arg.resources =
      "file://" \o
        Absolute(Join(lib[inst[last.inst].lib].unpacked_dir, "resources"))

KnownHost ==
  /\ last.arg.host.os \in {"macos", "linux", "windows"}
  /\ last.arg.host.arch \in {"x86", "x86_64", "aarch64"}

\* C20: the path load opens is the unpacked directory, binaries, the host's
\* <os><bits>, and the whole model identifier followed by a dot and the
\* host's extension.
C20_LibraryPath ==
  (Loading /\ last.trace # <<>> /\ KnownHost) =>
    last.trace[1].arg.path =
      lib[last.arg.lib].unpacked_dir \o "/binaries/"
        \o OsType(last.arg.host.os).os_type \o ArchType(last.arg.host.arch)
        \o "/" \o lib[last.arg.lib].mid
        \o "." \o OsType(last.arg.host.os).lib_type
Asked ==
  IF last.op = "get" THEN {last.arg[k] : k \in 1..Len(last.arg)}
  ELSE DOMAIN last.arg

\* C21: a get or set that names a variable that is not in the registry of
\* the instance's model returns a failure and makes no native call.
C21_ForeignRejected ==
  (last.op \in {"get", "set"} /\ Asked \ Registry # {}) =>
    /\ last.ret # Ok
    /\ last.trace = <<>>
\* C22: the size handed to the binary's serialize and deserialize entry
\* points is never larger than the buffer handed along with it.
C22_SizeWithinBuffer ==
  \A k \in 1..Len(last.trace) :
    last.trace[k].fn \in {"fmi2SerializeFMUstate", "fmi2DeSerializeFMUstate"}
      => last.trace[k].arg.size <= last.trace[k].arg.buffer
\* C23: whenever deserialize_fmu_state has returned, the state object its
\* deserialize call rebuilt has been handed to a free-state call.
C23_RebuiltStateReleased ==
  (last.op = "deserialize_fmu_state"
     /\ Succeeded(last.trace, "fmi2DeSerializeFMUstate")) =>
    \E k \in Calls("fmi2FreeFMUstate") :
      \A j \in Calls("fmi2DeSerializeFMUstate") : j < k
\* The instantiate calls made on the library of instance i before i's own.
Earlier(i) == {j \in Insts : j < i /\ Named(j) /\ inst[j].lib = inst[i].lib}

\* C24: the name passed to the native instantiate call is the model
\* identifier, an underscore and the number of instantiate calls made on that
\* library before, failed ones included; a library's counter changes only by
\* one, and only in an instantiate call on that library.
C24_NameCountsCalls ==
  [][/\ \A l \in Libs :
          lib'[l].counter # lib[l].counter =>
            /\ lib'[l].counter = lib[l].counter + 1
            /\ \E i \in Insts : /\ inst[i].state = "none"
                                /\ inst'[i].state = "named"
                                /\ inst'[i].lib = l
     /\ (last' # last /\ last'.op = "instantiate") =>
          LET i == last'.inst
          IN last'.trace[1].arg.name =
               lib'[inst'[i].lib].mid \o "_" \o ToString(Cardinality(Earlier(i)))
    ]_vars

\* The second instantiate call on a library whose first one failed or whose
\* first instance is gone: it is named with the ordinal 1.
C24_Witness ==
  /\ last.op = "instantiate" /\ last.inst = 2
  /\ inst[1].state \in {"failed", "released"}
  /\ inst[1].lib = inst[2].lib
  /\ last.trace[1].arg.name = lib[inst[2].lib].mid \o "_1"
\* C25: the callback table of an instance is allocated whenever a native call
\* is made for that instance, from the instantiate call on; it is released
\* only after free-instance was called for the component, or in an instantiate
\* call that fails, after the native call has returned.
C25_CallbacksOutliveComponent ==
  [][/\ (last' # last /\ last'.inst # 0 /\ last'.trace # <<>>) =>
          inst[last'.inst].callbacks
     /\ \A i \in Insts :
          /\ inst'[i].state \in {"named", "live", "freed"} => inst'[i].callbacks
          /\ (inst[i].callbacks /\ ~inst'[i].callbacks) =>
               \/ /\ inst[i].state = "freed"
                  /\ native[inst[i].handle].frees = 1
               \/ /\ inst[i].state = "named"
                  /\ last'.op = "instantiate" /\ last'.inst = i
                  /\ last'.ret = FmuInstantiateFailed
                  /\ last'.trace[1].arg.callbacks
    ]_vars

\* One instance released, its table gone after its component was freed, and
\* another one stepped while it holds its table.
C25_Witness ==
  /\ inst[1].state = "released" /\ ~inst[1].callbacks
  /\ native[inst[1].handle].frees = 1
  /\ inst[2].state = "live" /\ inst[2].callbacks
  /\ last.op = "do_step" /\ last.inst = 2
\* C26: a load that succeeds leaves a loaded library whose package directory
\* exists until the library is gone; a load that fails leaves the package
\* released, its ephemeral directory deleted, and nothing can be done with a
\* released package again; a directory the caller supplied, once it exists,
\* is deleted by no operation.
C26_LoadTakesPackage ==
  [][\A l \in Libs :
       /\ (last' # last /\ last'.op = "load" /\ last'.arg.lib = l) =>
            IF last'.ret = Ok
            THEN lib'[l].state = "loaded" /\ lib'[l].dir
            ELSE /\ last'.ret \in {FmuLoadError("NoCoSimulationModel"),
                                   FmuLoadError("NoModelExchangeModel"),
                                   FmuLoadError("DLOpen")}
                 /\ lib'[l].state = "gone"
                 /\ lib[l].temp => ~lib'[l].dir
       /\ lib'[l].state \in {"loaded", "unloaded"} => lib'[l].dir
       /\ lib[l].state = "gone" => lib'[l] = lib[l]
       /\ (lib[l].dir /\ ~lib[l].temp) => lib'[l].dir
    ]_vars

\* A load of an ephemeral package whose native library could not be opened.
C26_Witness ==
  /\ last.op = "load" /\ last.ret = FmuLoadError("DLOpen")
  /\ lib[last.arg.lib].state = "gone"
  /\ lib[last.arg.lib].temp /\ ~lib[last.arg.lib].dir
====
